---- MODULE Spec2Model ----
(***************************************************************************)
(* Broadcast bot (src/bot.py): the Database object (channel registry,      *)
(* admin list, stats), the per-actor user_data flags, and the asyncio      *)
(* handlers start / handle_callback / handle_message with                  *)
(* process_channel_addition, verify_and_add_channel and process_broadcast. *)
(*                                                                         *)
(* Scheduling: the handlers are coroutines on one event loop.  The code    *)
(* between two awaits runs without interruption, and at an await another   *)
(* handler may run.  One action of the model resumes one suspended handler *)
(* with the outcome of the call it awaited (it returned, or it raised) and *)
(* runs it up to its next await or to its end.  A handler's last await,    *)
(* after which it has no statement left, ends the handler when the call is *)
(* made: what the call returns changes nothing.  An update's handler       *)
(* starts at the first point where it reads or writes the state.           *)
(*                                                                         *)
(* Texts and titles are sequences of one-character strings, so that        *)
(* strip(), startswith(), isdigit(), int() and str() are computed.         *)
(***************************************************************************)
EXTENDS Integers, Sequences, FiniteSets, Bags, TLC

\* ---------------------------------------------------------------- bounds
\* Handlers (updates) started in one behaviour.
MaxUpdates == 4
\* Handlers suspended at an await at the same time.
MaxConcurrent == 2
\* Channels in the registry loaded at start-up.
MaxInitChannels == 1

\* ------------------------------------------------------------- constants
\* process_broadcast edits the status message when index % 5 == 0.
ProgressEvery == 5

\* ------------------------------------------------------------ characters
Digits == <<"0", "1", "2", "3", "4", "5", "6", "7", "8", "9">>

\* The value of an ASCII digit, -1 for any other character.
DigitVal(c) ==
    IF \E i \in 1..10 : Digits[i] = c
    THEN (CHOOSE i \in 1..10 : Digits[i] = c) - 1
    ELSE -1

\* str.isdigit() of one character: ASCII digits, and also digit characters
\* such as SUPERSCRIPT TWO, which int() does not accept.
IsDigitChar(c) == DigitVal(c) >= 0 \/ c = "sup2"

\* str.isdigit(): non-empty and every character a digit character.
isdigit(s) == Len(s) > 0 /\ \A i \in 1..Len(s) : IsDigitChar(s[i])

\* text[1:]
Tail1(s) == IF Len(s) = 0 THEN <<>> ELSE Tail(s)

\* str.startswith(c) for a one-character prefix.
startswith(s, c) == Len(s) > 0 /\ s[1] = c

\* str.strip(): leading and trailing blanks removed.
RECURSIVE lstrip(_)
lstrip(s) == IF Len(s) > 0 /\ s[1] = " " THEN lstrip(Tail(s)) ELSE s

RECURSIVE rstrip(_)
rstrip(s) ==
    IF Len(s) > 0 /\ s[Len(s)] = " " THEN rstrip(SubSeq(s, 1, Len(s) - 1)) ELSE s

strip(s) == rstrip(lstrip(s))

\* The digits of s read as a decimal number (s holds ASCII digits only).
RECURSIVE DecimalValue(_)
DecimalValue(s) ==
    IF Len(s) = 0 THEN 0
    ELSE 10 * DecimalValue(SubSeq(s, 1, Len(s) - 1)) + DigitVal(s[Len(s)])

AllAscii(s) == Len(s) > 0 /\ \A i \in 1..Len(s) : DigitVal(s[i]) >= 0

\* int(text) for the texts line 365 lets through: [ok, value]; ok is FALSE
\* where int() raises ValueError.
int(s) ==
    IF startswith(s, "-")
    THEN [ok |-> AllAscii(Tail1(s)), value |-> 0 - DecimalValue(Tail1(s))]
    ELSE [ok |-> AllAscii(s), value |-> DecimalValue(s)]

\* The decimal digits of a natural number.
RECURSIVE NatStr(_)
NatStr(n) ==
    IF n < 10 THEN <<Digits[n + 1]>>
    ELSE NatStr(n \div 10) \o <<Digits[(n % 10) + 1]>>

\* ------------------------------------------------------------ identities
\* A channel identity is a Python int (a forwarded chat's id, or int(text))
\* or a Python str (the "@name" text); None before one is found.
NoneId == [k |-> "none", n |-> 0, s |-> <<>>]
IntId(n) == [k |-> "int", n |-> n, s |-> <<>>]
StrId(s) == [k |-> "str", n |-> 0, s |-> s]

\* str(id), as add_channel, remove_channel and the remove button use it.
str(id) ==
    IF id.k = "str" THEN id.s
    ELSE IF id.k = "none" THEN <<"N", "o", "n", "e">>
    ELSE IF id.n < 0 THEN <<"-">> \o NatStr(0 - id.n)
    ELSE NatStr(id.n)

\* Python truthiness of channel_id in "if channel_id:".
Truthy(id) ==
    \/ id.k = "int" /\ id.n # 0
    \/ id.k = "str" /\ Len(id.s) > 0

\* ---------------------------------------------------------------- inputs
Actors == {1, 2}
\* ADMIN_IDS of the environment (line 28).
ADMIN_IDS == {1}

Mention == <<"@", "a">>
\* The title the platform reports for a chat (chat.title of get_chat).
ChatTitle == <<"News">>
\* The title and id a forwarded message carries (forward_from_chat).
FwdTitle == <<"Fwd">>
FwdId == 0 - 7

\* update.message: the type of forward_from_chat ("none" when the message is
\* no forward) and the text (empty for a media message).
Messages ==
    { [fwd |-> "none", text |-> tx] :
        tx \in { Mention, <<"7">>, <<" ", "7">>, <<"-", "7">>, <<"0">>,
                 <<"+", "7">>, <<"x">>, <<"sup2">>, <<>> } }
    \cup { [fwd |-> ty, text |-> tx] :
             ty \in {"channel", "supergroup", "group"}, tx \in {<<>>, Mention} }

\* Identities a channel of the registry can have with these inputs.
IdUniverse == {StrId(Mention), IntId(7), IntId(FwdId)}

Channel(id, title) == [id |-> id, title |-> title]

\* f"Channel {text}"
NumberTitle(text) == <<"Channel ">> \o text

\* The registry a previous run of the program left in the database file: one
\* entry per identity, as add_channel stores it.
StoredChannels ==
    { Channel(StrId(Mention), Mention),
      Channel(IntId(7), NumberTitle(<<"7">>)),
      Channel(IntId(FwdId), FwdTitle) }

\* query.data of a button press.
NoData == [cmd |-> "none", arg |-> <<>>]
CallbackData ==
    { [cmd |-> c, arg |-> <<>>] :
        c \in { "main_menu", "add_channel", "view_channels", "broadcast", "stats",
                "settings", "remove_channel_menu", "add_admin_menu", "list_admins" } }
    \cup { [cmd |-> "remove_channel_", arg |-> str(id)] : id \in IdUniverse }

\* Outcomes of the awaited platform calls.
CallOutcomes == {"ok", "raise"}
GetChatOutcomes == {"title", "no_title", "raise"}
MemberOutcomes == {"administrator", "creator", "member", "raise"}

\* ----------------------------------------------------------------- state
VARIABLES
    broadcast_channels,  \* db.data["broadcast_channels"]: the list's content
    admins,              \* db.data["admins"]
    stats,               \* db.data["stats"]
    user_data,           \* context.user_data of each actor: which keys are True
    tasks,               \* the frames of the handlers suspended at an await (a bag)
    nupdates,            \* updates received so far; also the clock of now()
    ended                \* the handler that ended in the last step, or NoTask

vars == <<broadcast_channels, admins, stats, user_data, tasks, nupdates, ended>>

Flags == {"awaiting_channel", "awaiting_broadcast"}

\* A handler's frame.  live: its local "channels" is still the very list
\* object db.data["broadcast_channels"] (get_channels returns the list, not a
\* copy), so an append by add_channel shows in it; remove_channel rebinds the
\* database's list and leaves the handler with the old object.
\* sent, dfail, started, updates and delta are history: the identities whose
\* delivery was invoked, the deliveries that raised, the registry when
\* process_broadcast began, the update_stats calls made and what the call
\* added to the three counters; saved: remove_channel called db.save();
\* progress: the progress updates emitted, each with the processed count, the
\* success count and the failure count it shows (lines 475-481).
NoTask ==
    [ kind |-> "none", actor |-> 0, pc |-> "none", how |-> "none",
      data |-> NoData, routed |-> "none", resp |-> "none",
      channel_id |-> NoneId, channel_title |-> <<>>,
      live |-> FALSE, channels |-> <<>>, index |-> 0, success_count |-> 0,
      failed_channels |-> <<>>, sent |-> <<>>, dfail |-> 0, started |-> <<>>,
      updates |-> 0, delta |-> <<0, 0, 0>>, saved |-> FALSE, progress |-> <<>> ]

Running == BagToSet(tasks)

\* -------------------------------------------------------------- Database
\* add_channel without its test for an entry of the same identity.
add_channel_unchecked(reg, channel_data) ==
    [ok |-> TRUE, channels |-> Append(reg, channel_data)]

\* add_channel assigning a list of the new entry instead of appending.
add_channel_overwrite(reg, channel_data) ==
    IF ~ \E i \in 1..Len(reg) : str(reg[i].id) = str(channel_data.id)
    THEN [ok |-> TRUE, channels |-> <<channel_data>>]
    ELSE [ok |-> FALSE, channels |-> reg]

\* Database.add_channel on the list content reg: [ok, channels].
add_channel(reg, channel_data) ==
    IF ~ \E i \in 1..Len(reg) : str(reg[i].id) = str(channel_data.id)
    THEN [ok |-> TRUE, channels |-> Append(reg, channel_data)]
    ELSE [ok |-> FALSE, channels |-> reg]

\* remove_channel comparing the stored id itself, not str() of it, with the
\* text of the button.
remove_channel_typed(reg, channel_id) ==
    LET kept == SelectSeq(reg, LAMBDA ch : ~(ch.id.k = "str" /\ ch.id.s = channel_id))
    IN  [ok |-> Len(kept) < Len(reg), channels |-> kept,
         saved |-> Len(kept) < Len(reg)]

\* Database.remove_channel: the list is rebuilt without the matching entries;
\* saved: save() was called (line 103).
remove_channel(reg, channel_id) ==
    LET kept == SelectSeq(reg, LAMBDA ch : str(ch.id) # channel_id)
    IN  [ok |-> Len(kept) < Len(reg), channels |-> kept,
         saved |-> Len(kept) < Len(reg)]

\* The empty dict get_channel returns when nothing matches.
NoChannel == [id |-> NoneId, title |-> <<>>]

\* Database.get_channel: the first entry of that identity, or {}.
get_channel(reg, channel_id) ==
    IF \E i \in 1..Len(reg) : str(reg[i].id) = channel_id
    THEN reg[CHOOSE i \in 1..Len(reg) :
                /\ str(reg[i].id) = channel_id
                /\ \A j \in 1..(i - 1) : str(reg[j].id) # channel_id]
    ELSE NoChannel

\* Database.get_channels: the list itself.
get_channels == broadcast_channels

\* is_admin answering yes to everyone.
is_admin_anyone(user_id) == user_id \in Actors

\* Database.is_admin
is_admin(user_id) == user_id \in admins

\* update_stats with the subtraction of line 134 the wrong way round.
update_stats_swapped(st, success_count, total_count, now) ==
    [ total_broadcasts |-> st.total_broadcasts + 1,
      successful_broadcasts |-> st.successful_broadcasts + success_count,
      failed_broadcasts |-> st.failed_broadcasts + (success_count - total_count),
      last_broadcast |-> now ]

\* Database.update_stats at time now.
update_stats(st, success_count, total_count, now) ==
    [ total_broadcasts |-> st.total_broadcasts + 1,
      successful_broadcasts |-> st.successful_broadcasts + success_count,
      failed_broadcasts |-> st.failed_broadcasts + (total_count - success_count),
      last_broadcast |-> now ]

\* Database._load_default_data: the stats of a new database; last_broadcast
\* None is 0 (the clock starts at 1).
DefaultStats ==
    [ total_broadcasts |-> 0, successful_broadcasts |-> 0,
      failed_broadcasts |-> 0, last_broadcast |-> 0 ]

\* ------------------------------------------------------------ user_data
\* context.user_data[flag] = True
SetFlag(ud, a, flag) == [ud EXCEPT ![a][flag] = TRUE]
\* context.user_data.pop(flag, None)
PopFlag(ud, a, flag) == [ud EXCEPT ![a][flag] = FALSE]
\* context.user_data.get(flag)
GetFlag(a, flag) == user_data[a][flag]

\* ------------------------------------------------- process_channel_addition
\* Lines 349-367: the identity and the provisional title found in the
\* message: [raised, channel_id, channel_title].  raised: int(text) raised.
ResolveChannel(msg) ==
    LET text == strip(msg.text)
        none == [raised |-> FALSE, channel_id |-> NoneId,
                 channel_title |-> <<"Unknown">>]
    IN  IF msg.fwd # "none"
        THEN IF msg.fwd \in {"channel", "supergroup"}
             THEN [none EXCEPT !.channel_id = IntId(FwdId),
                               !.channel_title = FwdTitle]
             ELSE none
        ELSE IF Len(msg.text) > 0
        THEN IF startswith(text, "@")
             THEN [none EXCEPT !.channel_id = StrId(text), !.channel_title = text]
             ELSE IF isdigit(text) \/ (startswith(text, "-") /\ isdigit(Tail1(text)))
             THEN IF int(text).ok
                  THEN [none EXCEPT !.channel_id = IntId(int(text).value),
                                    !.channel_title = NumberTitle(text)]
                  ELSE [none EXCEPT !.raised = TRUE]
             ELSE none
        ELSE none

\* ------------------------------------------------------------- scheduling
\* A new update may be taken up.
CanArrive == nupdates < MaxUpdates /\ BagCardinality(tasks) < MaxConcurrent

One(f) == SetToBag({f})

\* list.append on the database's list: every frame whose "channels" is that
\* list object sees the new element.
AppendedFrame(f, ch) ==
    IF f.live THEN [f EXCEPT !.channels = Append(@, ch)] ELSE f

Appended(tk, ch) ==
    LET F(f) == AppendedFrame(f, ch) IN BagOfAll(F, tk)

\* remove_channel assigns a new list to db.data["broadcast_channels"]: no
\* frame's "channels" is the database's list any more.
ReboundFrame(f) == [f EXCEPT !.live = FALSE]

Rebound(tk) == BagOfAll(ReboundFrame, tk)

\* A new update's handler suspends at an await with frame f; tk are the
\* other frames.
Spawn(tk, f) ==
    /\ tasks' = tk (+) One(f)
    /\ nupdates' = nupdates + 1
    /\ ended' = NoTask

\* A new update's handler ends without suspending.
SpawnEnded(tk, f, how) ==
    /\ tasks' = tk
    /\ nupdates' = nupdates + 1
    /\ ended' = [f EXCEPT !.how = how]

\* The handler with frame f is resumed; tk are the other frames.
Others(f) == tasks (-) One(f)

\* The resumed handler suspends again with frame g.
Suspend(tk, g) ==
    /\ tasks' = tk (+) One(g)
    /\ nupdates' = nupdates
    /\ ended' = NoTask

\* The resumed handler ends: it returned ("done") or was left by an
\* exception ("raised").
Finish(tk, g, how) ==
    /\ tasks' = tk
    /\ nupdates' = nupdates
    /\ ended' = [g EXCEPT !.how = how]

Frame(kind, a) ==
    [NoTask EXCEPT !.kind = kind, !.actor = a]

\* ------------------------------------------------------------------ start
\* start() (lines 142-166) in frame f: the reply it sends.
start(f) ==
    IF is_admin(f.actor)
    THEN [f EXCEPT !.resp = "menu"]
    ELSE [f EXCEPT !.resp = "access_denied"]

\* The /start command arrives.
StartCommand(a) ==
    /\ CanArrive
    /\ SpawnEnded(tasks, start(Frame("start", a)), "done")
    /\ UNCHANGED <<broadcast_channels, admins, stats, user_data>>

\* --------------------------------------------------------- handle_callback
\* A button press: handle_callback from the return of query.answer() (lines
\* 171-269) to the edit_message_text of the branch taken.  remove_channel
\* runs before the branch's await.
CallbackArrives(a, data, outcome) ==
    LET f == [Frame("callback", a) EXCEPT !.data = data]
        cmd == data.cmd
        removed == remove_channel(broadcast_channels, data.arg)
    IN  /\ CanArrive
        /\ IF outcome = "raise"
           THEN /\ SpawnEnded(tasks, f, "raised")
                /\ UNCHANGED broadcast_channels
           ELSE IF ~ is_admin(a)
           THEN /\ SpawnEnded(tasks, [f EXCEPT !.resp = "not_authorized"], "done")
                /\ UNCHANGED broadcast_channels
           ELSE IF cmd = "add_channel"
           THEN /\ Spawn(tasks, [f EXCEPT !.pc = "cb_add_channel", !.resp = "add_prompt"])
                /\ UNCHANGED broadcast_channels
           ELSE IF cmd = "broadcast"
           THEN /\ IF Len(get_channels) = 0
                   THEN SpawnEnded(tasks, [f EXCEPT !.resp = "no_channels"], "done")
                   ELSE Spawn(tasks, [f EXCEPT !.pc = "cb_broadcast",
                                               !.resp = "broadcast_prompt"])
                /\ UNCHANGED broadcast_channels
           ELSE IF cmd = "remove_channel_"
           THEN /\ broadcast_channels' = removed.channels
                /\ SpawnEnded(Rebound(tasks),
                              [f EXCEPT !.resp = IF removed.ok THEN "removed"
                                                 ELSE "not_found",
                                        !.saved = removed.saved],
                              "done")
           ELSE IF cmd = "list_admins"
           THEN /\ SpawnEnded(tasks, f, "done")
                /\ UNCHANGED broadcast_channels
           ELSE /\ SpawnEnded(tasks, [f EXCEPT !.resp = cmd], "done")
                /\ UNCHANGED broadcast_channels
        /\ UNCHANGED <<admins, stats, user_data>>

\* The prompt of "add_channel" or "broadcast" was shown (lines 183-194,
\* 220-228): the flag is set after the edit returned.
PromptEdited(f, outcome) ==
    LET flag == IF f.pc = "cb_add_channel" THEN "awaiting_channel"
                ELSE "awaiting_broadcast"
    IN  /\ f.pc \in {"cb_add_channel", "cb_broadcast"}
        /\ IF outcome = "ok"
           THEN /\ user_data' = SetFlag(user_data, f.actor, flag)
                /\ Finish(Others(f), f, "done")
           ELSE /\ UNCHANGED user_data
                /\ Finish(Others(f), f, "raised")
        /\ UNCHANGED <<broadcast_channels, admins, stats>>

\* ---------------------------------------------------------- handle_message
\* process_broadcast from the end of an iteration (lines 471-493): the next
\* element of the list, if the list as it is now has one, else update_stats.
\* The frame suspends at the progress edit, at the delivery or at the report.
LoopNext(f) ==
    IF f.index < Len(f.channels)
    THEN LET index == f.index + 1
         IN  IF index % ProgressEvery = 0 \/ index = Len(f.channels)
             THEN [f EXCEPT !.index = index, !.pc = "bc_progress", !.resp = "progress",
                            !.progress = Append(@, <<index, f.success_count,
                                                     Len(f.failed_channels)>>)]
             ELSE [f EXCEPT !.index = index, !.pc = "bc_send",
                            !.sent = Append(@, f.channels[index].id)]
    ELSE LET st == update_stats(stats, f.success_count, Len(f.channels), nupdates)
         IN  [f EXCEPT !.pc = "bc_report", !.resp = "report", !.updates = @ + 1,
                       !.delta = << st.total_broadcasts - stats.total_broadcasts,
                                    st.successful_broadcasts - stats.successful_broadcasts,
                                    st.failed_broadcasts - stats.failed_broadcasts >>]

\* The stats after the step that takes frame f to LoopNext(f).
StatsAfter(f) ==
    IF f.index < Len(f.channels)
    THEN stats
    ELSE update_stats(stats, f.success_count, Len(f.channels), nupdates)

\* process_broadcast up to its first await (lines 451-464).
process_broadcast(f) ==
    LET channels == get_channels
        g == [f EXCEPT !.routed = "awaiting_broadcast", !.live = TRUE,
                       !.channels = channels, !.started = channels]
    IN  IF Len(channels) = 0
        THEN [g EXCEPT !.pc = "bc_nochan", !.resp = "no_channels"]
        ELSE [g EXCEPT !.pc = "bc_status", !.resp = "status"]

\* process_channel_addition up to its first await (lines 349-379), with the
\* start of verify_and_add_channel (line 389): [raised, frame].
process_channel_addition(f, msg) ==
    LET r == ResolveChannel(msg)
        g == [f EXCEPT !.routed = "awaiting_channel", !.channel_id = r.channel_id,
                       !.channel_title = r.channel_title]
    IN  IF r.raised THEN [raised |-> TRUE, frame |-> g]
        ELSE IF Truthy(r.channel_id)
        THEN [raised |-> FALSE, frame |-> [g EXCEPT !.pc = "va_get_chat"]]
        ELSE [raised |-> FALSE,
              frame |-> [g EXCEPT !.pc = "ca_invalid", !.resp = "invalid_input"]]

\* A text or media message arrives: handle_message (lines 327-345) up to the
\* first await of the branch taken.
MessageArrives(a, msg) ==
    LET f == Frame("message", a)
        added == process_channel_addition(f, msg)
    IN  /\ CanArrive
        /\ IF ~ is_admin(a)
           THEN SpawnEnded(tasks, [f EXCEPT !.resp = "not_authorized"], "done")
           ELSE IF GetFlag(a, "awaiting_channel")
           THEN IF added.raised
                THEN SpawnEnded(tasks, added.frame, "raised")
                ELSE Spawn(tasks, added.frame)
           ELSE IF GetFlag(a, "awaiting_broadcast")
           THEN Spawn(tasks, process_broadcast(f))
           ELSE SpawnEnded(tasks, start(f), "done")
        /\ UNCHANGED <<broadcast_channels, admins, stats, user_data>>

\* The "Invalid Input" reply returned (lines 372-381): the flag is popped
\* after it.
InvalidReplied(f, outcome) ==
    /\ f.pc = "ca_invalid"
    /\ IF outcome = "ok"
       THEN /\ user_data' = PopFlag(user_data, f.actor, "awaiting_channel")
            /\ Finish(Others(f), f, "done")
       ELSE /\ UNCHANGED user_data
            /\ Finish(Others(f), f, "raised")
    /\ UNCHANGED <<broadcast_channels, admins, stats>>

\* -------------------------------------------------- verify_and_add_channel
\* bot.get_chat returned (lines 389-393) or raised (lines 405-414).
GetChatReturned(f, outcome) ==
    /\ f.pc = "va_get_chat"
    /\ Suspend(Others(f),
          IF outcome = "raise"
          THEN [f EXCEPT !.pc = "va_warn", !.resp = "warning"]
          ELSE [f EXCEPT !.pc = "va_get_member",
                         !.channel_title = IF outcome = "title" THEN ChatTitle ELSE @])
    /\ UNCHANGED <<broadcast_channels, admins, stats, user_data>>

\* Lines 417-436: db.add_channel and the reply that reports its result; the
\* resumed frame f goes on as g.
AddAndReply(f, g) ==
    LET channel_data == Channel(g.channel_id, g.channel_title)
        r == add_channel(broadcast_channels, channel_data)
    IN  /\ broadcast_channels' = r.channels
        /\ Suspend(IF r.ok THEN Appended(Others(f), channel_data) ELSE Others(f),
                   [g EXCEPT !.pc = "va_result",
                             !.resp = IF r.ok THEN "added" ELSE "exists"])

\* bot.get_chat_member returned (lines 393-403, then 417) or raised (405).
GetChatMemberReturned(f, outcome) ==
    /\ f.pc = "va_get_member"
    /\ IF outcome = "raise"
       THEN /\ Suspend(Others(f), [f EXCEPT !.pc = "va_warn", !.resp = "warning"])
            /\ UNCHANGED broadcast_channels
       ELSE IF outcome \in {"administrator", "creator"}
       THEN AddAndReply(f, f)
       ELSE /\ Suspend(Others(f), [f EXCEPT !.pc = "va_notadmin", !.resp = "not_admin"])
            /\ UNCHANGED broadcast_channels
    /\ UNCHANGED <<admins, stats, user_data>>

\* The "Not Admin" reply (lines 397-403) returned: verify_and_add_channel
\* returns and line 381 pops the flag.  It raised: the reply is inside the
\* inner try, so line 405 catches it and the warning is sent.
NotAdminReplied(f, outcome) ==
    /\ f.pc = "va_notadmin"
    /\ IF outcome = "ok"
       THEN /\ user_data' = PopFlag(user_data, f.actor, "awaiting_channel")
            /\ Finish(Others(f), f, "done")
       ELSE /\ UNCHANGED user_data
            /\ Suspend(Others(f), [f EXCEPT !.pc = "va_warn", !.resp = "warning"])
    /\ UNCHANGED <<broadcast_channels, admins, stats>>

\* The warning reply (lines 408-414) returned: the channel is added.  It
\* raised: line 438 catches it and the error reply is sent.
WarningReplied(f, outcome) ==
    /\ f.pc = "va_warn"
    /\ IF outcome = "ok"
       THEN AddAndReply(f, f)
       ELSE /\ Suspend(Others(f), [f EXCEPT !.pc = "va_error", !.resp = "error"])
            /\ UNCHANGED broadcast_channels
    /\ UNCHANGED <<admins, stats, user_data>>

\* The reply after db.add_channel (lines 424-436) returned, or raised into
\* line 438.
ResultReplied(f, outcome) ==
    /\ f.pc = "va_result"
    /\ IF outcome = "ok"
       THEN /\ user_data' = PopFlag(user_data, f.actor, "awaiting_channel")
            /\ Finish(Others(f), f, "done")
       ELSE /\ UNCHANGED user_data
            /\ Suspend(Others(f), [f EXCEPT !.pc = "va_error", !.resp = "error"])
    /\ UNCHANGED <<broadcast_channels, admins, stats>>

\* The "Error Adding Channel" reply (lines 440-447) returned; it is inside
\* the except block, so if it raises the handler is left by the exception.
ErrorReplied(f, outcome) ==
    /\ f.pc = "va_error"
    /\ IF outcome = "ok"
       THEN /\ user_data' = PopFlag(user_data, f.actor, "awaiting_channel")
            /\ Finish(Others(f), f, "done")
       ELSE /\ UNCHANGED user_data
            /\ Finish(Others(f), f, "raised")
    /\ UNCHANGED <<broadcast_channels, admins, stats>>

\* -------------------------------------------------------- process_broadcast
\* The "No channels" reply (lines 454-456) returned: the flag is popped.
NoChannelsReplied(f, outcome) ==
    /\ f.pc = "bc_nochan"
    /\ IF outcome = "ok"
       THEN /\ user_data' = PopFlag(user_data, f.actor, "awaiting_broadcast")
            /\ Finish(Others(f), f, "done")
       ELSE /\ UNCHANGED user_data
            /\ Finish(Others(f), f, "raised")
    /\ UNCHANGED <<broadcast_channels, admins, stats>>

\* The "Starting Broadcast" reply (lines 459-464) returned: the counters are
\* cleared and the loop takes its first element.
StatusReplied(f, outcome) ==
    /\ f.pc = "bc_status"
    /\ IF outcome = "ok"
       THEN /\ Suspend(Others(f), LoopNext(f))
            /\ stats' = StatsAfter(f)
       ELSE /\ Finish(Others(f), f, "raised")
            /\ UNCHANGED stats
    /\ UNCHANGED <<broadcast_channels, admins, user_data>>

\* An except block that logs the failure and records nothing.
RecordFailure_unrecorded(f) == f

\* The except block of the loop (lines 487-490): the channel's title is
\* appended to failed_channels.
RecordFailure(f) ==
    [f EXCEPT !.failed_channels = Append(@, f.channels[f.index].title)]

\* status_msg.edit_text (lines 475-481) returned: the delivery is started.
\* It raised: it is inside the loop's try, so the except block runs and the
\* loop goes on to the next element.
ProgressEdited(f, outcome) ==
    /\ f.pc = "bc_progress"
    /\ IF outcome = "ok"
       THEN /\ Suspend(Others(f),
                  [f EXCEPT !.pc = "bc_send",
                            !.sent = Append(@, f.channels[f.index].id)])
            /\ UNCHANGED stats
       ELSE /\ Suspend(Others(f), LoopNext(RecordFailure(f)))
            /\ stats' = StatsAfter(f)
    /\ UNCHANGED <<broadcast_channels, admins, user_data>>

\* send_to_channel (line 484) returned or raised; then the next element, or
\* update_stats and the report (lines 493-497).
Delivered(f, outcome) ==
    LET g == IF outcome = "ok"
             THEN [f EXCEPT !.success_count = @ + 1]
             ELSE [RecordFailure(f) EXCEPT !.dfail = @ + 1]
    IN  /\ f.pc = "bc_send"
        /\ Suspend(Others(f), LoopNext(g))
        /\ stats' = StatsAfter(g)
        /\ UNCHANGED <<broadcast_channels, admins, user_data>>

\* send_broadcast_report (lines 496-499) returned: the flag is popped.
ReportSent(f, outcome) ==
    /\ f.pc = "bc_report"
    /\ IF outcome = "ok"
       THEN /\ user_data' = PopFlag(user_data, f.actor, "awaiting_broadcast")
            /\ Finish(Others(f), f, "done")
       ELSE /\ UNCHANGED user_data
            /\ Finish(Others(f), f, "raised")
    /\ UNCHANGED <<broadcast_channels, admins, stats>>

\* ------------------------------------------------------------------- spec
\* The registries of at most n entries with distinct identities.
RECURSIVE Registries(_)
Registries(n) ==
    IF n = 0 THEN {<<>>}
    ELSE LET shorter == Registries(n - 1)
         IN  shorter \cup
             { Append(reg, ch) : reg \in shorter, ch \in StoredChannels }

NoDuplicates(reg) ==
    \A i, j \in 1..Len(reg) : str(reg[i].id) = str(reg[j].id) => i = j

\* Database.__init__ and load(): the registry of the database file, the
\* admins ADMIN_IDS, fresh stats; no handler yet, no flag set.
Init ==
    /\ broadcast_channels \in {reg \in Registries(MaxInitChannels) : NoDuplicates(reg)}
    /\ admins = ADMIN_IDS
    /\ stats = DefaultStats
    /\ user_data = [a \in Actors |-> [fl \in Flags |-> FALSE]]
    /\ tasks = EmptyBag
    /\ nupdates = 0
    /\ ended = NoTask

\* The step of a handler suspended at the "Invalid Input" reply.
InvalidSteps == \E f \in Running, o \in CallOutcomes : InvalidReplied(f, o)

\* The steps of the handlers suspended in verify_and_add_channel.
AdditionSteps ==
    \/ \E f \in Running, o \in GetChatOutcomes : GetChatReturned(f, o)
    \/ \E f \in Running, o \in MemberOutcomes : GetChatMemberReturned(f, o)
    \/ \E f \in Running, o \in CallOutcomes : NotAdminReplied(f, o)
    \/ \E f \in Running, o \in CallOutcomes : WarningReplied(f, o)
    \/ \E f \in Running, o \in CallOutcomes : ResultReplied(f, o)
    \/ \E f \in Running, o \in CallOutcomes : ErrorReplied(f, o)

\* The steps of the handlers suspended in process_broadcast.
BroadcastSteps ==
    \/ \E f \in Running, o \in CallOutcomes : NoChannelsReplied(f, o)
    \/ \E f \in Running, o \in CallOutcomes : StatusReplied(f, o)
    \/ \E f \in Running, o \in CallOutcomes : ProgressEdited(f, o)
    \/ \E f \in Running, o \in CallOutcomes : Delivered(f, o)
    \/ \E f \in Running, o \in CallOutcomes : ReportSent(f, o)

PromptSteps == \E f \in Running, o \in CallOutcomes : PromptEdited(f, o)

\* Every update any actor can send.
Next ==
    \/ \E a \in Actors : StartCommand(a)
    \/ \E a \in Actors, data \in CallbackData, o \in CallOutcomes :
          CallbackArrives(a, data, o)
    \/ \E a \in Actors, msg \in Messages : MessageArrives(a, msg)
    \/ PromptSteps
    \/ InvalidSteps
    \/ AdditionSteps
    \/ BroadcastSteps

Spec == Init /\ [][Next]_vars

\* The admin of ADMIN_IDS edits the registry: "add_channel" and the remove
\* buttons, each acknowledged, and the messages that name a channel.
RegistryData == {d \in CallbackData : d.cmd \in {"add_channel", "remove_channel_"}}

RegistryMessages ==
    { m \in Messages :
        /\ m.fwd = "none"
        /\ m.text \in {Mention, <<"7">>} }

NextRegistry ==
    \/ \E a \in ADMIN_IDS, data \in RegistryData : CallbackArrives(a, data, "ok")
    \/ \E a \in ADMIN_IDS, msg \in RegistryMessages : MessageArrives(a, msg)
    \/ PromptSteps
    \/ AdditionSteps

SpecRegistry == Init /\ [][NextRegistry]_vars

\* The admin broadcasts while the registry is edited and the stats are
\* viewed: "broadcast", "add_channel", "stats" and the remove button of the
\* channel the text names, and one text, which is the payload of a broadcast
\* or names the channel to add.
DispatchData ==
    {d \in CallbackData :
        \/ d.cmd \in {"broadcast", "add_channel", "stats"}
        \/ d.cmd = "remove_channel_" /\ d.arg = Mention}

DispatchMessages == {m \in Messages : m.fwd = "none" /\ m.text = Mention}

NextDispatch ==
    \/ \E a \in ADMIN_IDS, data \in DispatchData, o \in CallOutcomes :
          CallbackArrives(a, data, o)
    \/ \E a \in ADMIN_IDS, msg \in DispatchMessages : MessageArrives(a, msg)
    \/ PromptSteps
    \/ AdditionSteps
    \/ BroadcastSteps

SpecDispatch == Init /\ [][NextDispatch]_vars

\* The event loop resumes every handler whose awaited call has returned or
\* raised: no handler stays suspended for ever.  Updates need not arrive.
Resumed ==
    /\ WF_vars(PromptSteps)
    /\ WF_vars(AdditionSteps)
    /\ WF_vars(BroadcastSteps)

FairDispatch == SpecDispatch /\ Resumed

\* Actors outside the admin list try every entry point while the admin
\* adds channels.
GuardData == {d \in CallbackData : d.cmd \in {"add_channel", "remove_channel_"}}

GuardMessages == {m \in Messages : m.fwd = "none" /\ m.text \in {Mention, <<"x">>}}

NextGuard ==
    \/ \E a \in Actors : StartCommand(a)
    \/ \E a \in Actors \ ADMIN_IDS, data \in CallbackData, o \in CallOutcomes :
          CallbackArrives(a, data, o)
    \/ \E a \in Actors \ ADMIN_IDS, msg \in Messages : MessageArrives(a, msg)
    \/ \E a \in ADMIN_IDS, data \in GuardData, o \in CallOutcomes :
          CallbackArrives(a, data, o)
    \/ \E a \in ADMIN_IDS, msg \in GuardMessages : MessageArrives(a, msg)
    \/ PromptSteps
    \/ InvalidSteps
    \/ AdditionSteps

SpecGuard == Init /\ [][NextGuard]_vars

\* ----------------------------------------------------------------- claims
\* The frames of process_broadcast whose loop is over: update_stats was
\* called and the report is being sent.
Reporting == {f \in Running : f.pc = "bc_report"}

\* The identities of a list of channels.
Ids(reg) == [i \in 1..Len(reg) |-> reg[i].id]

\* C1: a dispatch run over the N >= 1 channels the registry held when it
\* started, in which K deliveries failed, reports success_count = N - K and
\* K failed entries, and its stats update adds 1, N - K and K.
C1_DispatchAccounting ==
    \A f \in Reporting :
        LET N == Len(f.started)
            K == f.dfail
        IN  /\ f.success_count = N - K
            /\ Len(f.failed_channels) = K
            /\ f.delta = <<1, N - K, K>>

\* C3: when the handling of a message routed by a flag ends, by return or
\* by an exception, that flag of the actor is cleared.
C3_FlagClearedAtEnd ==
    ended.routed \in Flags => ~ user_data[ended.actor][ended.routed]

\* C5: a dispatch run works on the channels the registry held when the run
\* started, whatever other handlers do to the registry meanwhile.
C5_RunUsesSnapshot ==
    \A f \in Running : f.routed = "awaiting_broadcast" => f.channels = f.started

\* C7: no actor has awaiting_channel and awaiting_broadcast set together.
C7_OneFlagPerActor ==
    \A a \in Actors :
        ~ (user_data[a]["awaiting_channel"] /\ user_data[a]["awaiting_broadcast"])

\* C8: a broadcast message handled with an empty registry makes no stats
\* update, does not reach the report, and its flag is cleared at the end.
C8_EmptyRegistryRun ==
    (ended.routed = "awaiting_broadcast" /\ ended.started = <<>>) =>
        /\ ended.updates = 0
        /\ ended.resp = "no_channels"
        /\ ~ user_data[ended.actor]["awaiting_broadcast"]

\* C9: when the loop of a run is over, the delivery was invoked once for
\* each channel of the run's list, in the list's order, and every entry of
\* the failed list stands for a delivery that raised.
C9_OneDeliveryPerChannel ==
    \A f \in Reporting :
        /\ f.sent = Ids(f.channels)
        /\ Len(f.failed_channels) = f.dfail

\* The frames that reach the reply after db.add_channel in this step.
AfterAdd == {g \in BagToSet(tasks') :
                g.pc = "va_result" /\ CopiesIn(g, tasks') > CopiesIn(g, tasks)}

Present(reg, id) == \E i \in 1..Len(reg) : str(reg[i].id) = str(id)

\* C2: no two entries of the registry have the same identity as strings,
\* after any step; an add of an identity that is present returns false and
\* leaves the registry as it was, and any other add appends its entry.
C2_RegistryIdentitiesDistinct ==
    [][ /\ NoDuplicates(broadcast_channels')
        /\ \A g \in AfterAdd :
              IF Present(broadcast_channels, g.channel_id)
              THEN g.resp = "exists" /\ broadcast_channels' = broadcast_channels
              ELSE /\ g.resp = "added"
                   /\ broadcast_channels' =
                        Append(broadcast_channels, Channel(g.channel_id, g.channel_title))
      ]_vars

\* An add of an identity the registry of two channels already holds was
\* refused.
C2_Witness ==
    \E g \in Running :
        /\ g.pc = "va_result" /\ g.resp = "exists"
        /\ Len(broadcast_channels) >= 2

\* The step is the press of the remove button of identity id.
RemovalOf(id) ==
    /\ ended'.kind = "callback"
    /\ ended'.data.cmd = "remove_channel_"
    /\ ended'.data.arg = str(id)

Denials == {"access_denied", "not_authorized"}

ReportingCount(tk) == CopiesIn("bc_report", BagOfAll(LAMBDA f : f.pc, tk))

\* C10: the three counters never decrease, and the stats change in exactly
\* the steps in which the loop of one dispatch run ends: then by one
\* update_stats call, which counts one broadcast; no other step, and no
\* step inside the loop, changes them.
C10_StatsOncePerRun ==
    [][ /\ \A f \in BagToSet(tasks') :
              f.updates = IF f.pc = "bc_report" THEN 1 ELSE 0
        /\ IF stats' = stats
           THEN ReportingCount(tasks') <= ReportingCount(tasks)
           ELSE /\ ReportingCount(tasks') = ReportingCount(tasks) + 1
                /\ stats'.total_broadcasts = stats.total_broadcasts + 1
                /\ stats'.successful_broadcasts >= stats.successful_broadcasts
                /\ stats'.failed_broadcasts >= stats.failed_broadcasts
      ]_vars

\* A run over two channels has ended its loop with one success and one
\* failure counted.
C10_Witness ==
    \E f \in Reporting :
        /\ Len(f.channels) = 2
        /\ f.success_count = 1
        /\ stats.total_broadcasts = 1
        /\ stats.successful_broadcasts = 1
        /\ stats.failed_broadcasts = 1

\* The admin's handler that ended in this step pressed a remove button.
Removal ==
    /\ ended'.kind = "callback" /\ ended'.data.cmd = "remove_channel_"
    /\ ended'.resp \in {"removed", "not_found"}

\* C11: a remove of an identity the registry holds (compared as strings)
\* answers "removed", saves, and get_channel of that identity is then
\* empty while every other entry stays; a remove that matches nothing
\* answers "not found", leaves the registry's content as it was and does
\* not save.
C11_RemoveThenGetEmpty ==
    [][ Removal =>
          LET id == ended'.data.arg
          IN  /\ get_channel(broadcast_channels', id) = NoChannel
              /\ IF get_channel(broadcast_channels, id) # NoChannel
                 THEN /\ ended'.resp = "removed" /\ ended'.saved
                      /\ Len(broadcast_channels') = Len(broadcast_channels) - 1
                      /\ \A i \in 1..Len(broadcast_channels) :
                            str(broadcast_channels[i].id) # id =>
                               get_channel(broadcast_channels',
                                           str(broadcast_channels[i].id))
                                  = broadcast_channels[i]
                 ELSE /\ ended'.resp = "not_found" /\ ~ ended'.saved
                      /\ broadcast_channels' = broadcast_channels
      ]_vars

\* The channel added by the text "7", stored with the int 7, was removed by
\* the button whose data ends in "7", and the other channel is still there.
C11_Witness ==
    /\ ended.kind = "callback" /\ ended.data.cmd = "remove_channel_"
    /\ ended.data.arg = <<"7">> /\ ended.resp = "removed"
    /\ Len(broadcast_channels) >= 1
    /\ get_channel(broadcast_channels, <<"7">>) = NoChannel

\* A dispatch run has started: it is suspended at its status message.
RunStarted == \E f \in Running : f.pc = "bc_status"

\* A dispatch run has completed: its handler returned from the report, after
\* update_stats, and its actor's awaiting_broadcast is cleared.
RunCompleted ==
    /\ ended.pc = "bc_report" /\ ended.how = "done" /\ ended.updates = 1
    /\ ~ user_data[ended.actor]["awaiting_broadcast"]

\* C12: once a dispatch run has started, a dispatch run completes: the
\* stats are updated, the report is sent and the flag is cleared.
C12_RunCompletes == RunStarted ~> RunCompleted

\* The flag a menu selection asks for.
FlagOf(cmd) == IF cmd = "add_channel" THEN "awaiting_channel" ELSE "awaiting_broadcast"

\* An admin's handler of "add_channel" or "broadcast" has just returned.
Selected ==
    /\ ended.kind = "callback" /\ ended.how = "done"
    /\ ended.actor \in admins
    /\ ended.data.cmd \in {"add_channel", "broadcast"}

\* C13: when the handler of an admin's "add_channel" or "broadcast"
\* selection has returned, the actor's flag is the one selected, and only it.
C13_SelectionSetsFlag ==
    Selected =>
        user_data[ended.actor] = [fl \in Flags |-> fl = FlagOf(ended.data.cmd)]

\* An admin's handler of a button other than "add_channel" and "broadcast"
\* has just returned.
Navigated ==
    /\ ended.kind = "callback" /\ ended.how = "done"
    /\ ended.actor \in admins
    /\ ended.data.cmd \notin {"add_channel", "broadcast"}

\* C14: when the handler of any other button of an admin has returned, no
\* flag of that actor is set.
C14_NavigationClearsFlag ==
    Navigated => \A fl \in Flags : ~ user_data[ended.actor][fl]

\* The frames that start, or newly reach their place, in this step.
NewFrames ==
    {g \in BagToSet(tasks') : CopiesIn(g, tasks') > CopiesIn(g, tasks)}

\* Rule 1 of the resolver applies: a forward from a channel or supergroup.
IsChannelForward(msg) == msg.fwd \in {"channel", "supergroup"}

\* Rule 2 applies: rule 1 does not, and the text begins with "@".
IsMention(msg) == ~ IsChannelForward(msg) /\ startswith(msg.text, "@")

\* C15: a message that is no forward from a channel or supergroup and whose
\* text begins with "@", sent by an admin whose awaiting_channel is set,
\* goes to verification with the text as identity and as provisional title.
C15_MentionResolves ==
    [][ \A a \in ADMIN_IDS, msg \in Messages :
          (GetFlag(a, "awaiting_channel") /\ IsMention(msg) /\ MessageArrives(a, msg))
             => \E g \in NewFrames :
                   /\ g.actor = a /\ g.pc = "va_get_chat"
                   /\ g.channel_id = StrId(msg.text)
                   /\ g.channel_title = msg.text
      ]_vars

\* The digits of a text after its sign, if it has one.
Unsigned(s) == IF startswith(s, "-") \/ startswith(s, "+") THEN Tail1(s) ELSE s

\* The number a signed or unsigned integer literal denotes.
LiteralValue(s) ==
    IF startswith(s, "-") THEN 0 - DecimalValue(Unsigned(s))
    ELSE DecimalValue(Unsigned(s))

\* Rule 3 applies: rules 1 and 2 do not, and the text is an integer literal.
IsNumber(msg) ==
    ~ IsChannelForward(msg) /\ ~ IsMention(msg) /\ AllAscii(Unsigned(msg.text))

\* C16: a message whose text is an integer literal and to which no rule of
\* higher priority applies, sent by an admin whose awaiting_channel is set,
\* goes to verification with the number as identity; "Invalid Input" is not
\* its answer.
C16_NumberResolves ==
    [][ \A a \in ADMIN_IDS, msg \in Messages :
          (GetFlag(a, "awaiting_channel") /\ IsNumber(msg) /\ MessageArrives(a, msg))
             => \E g \in NewFrames :
                   /\ g.actor = a /\ g.pc = "va_get_chat"
                   /\ g.channel_id = IntId(LiteralValue(msg.text))
      ]_vars

\* The handlers in which get_chat_member returned a role that is neither
\* administrator nor creator: they are suspended at the "Not Admin" reply.
Insufficient == {f \in Running : f.pc = "va_notadmin"}

\* Frame f is resumed in this step.
ResumedNow(f) == CopiesIn(f, tasks') < CopiesIn(f, tasks)

\* C17: the handler that found the bot's role insufficient ends when it is
\* resumed from the "Not Admin" reply: it goes on to no other reply and to
\* no registration, the registry is as it was, and the actor's
\* awaiting_channel is cleared.
C17_NotAdminNotRegistered ==
    [][ \A f \in Insufficient :
          ResumedNow(f) =>
             /\ ended'.pc = "va_notadmin" /\ ended'.resp = "not_admin"
             /\ ended'.actor = f.actor /\ ended'.channel_id = f.channel_id
             /\ broadcast_channels' = broadcast_channels
             /\ ~ user_data'[f.actor]["awaiting_channel"]
      ]_vars

\* The provisional titles process_channel_addition derives for an identity
\* from the admin's input.
ProvisionalTitles(id) ==
    { ResolveChannel(m).channel_title :
        m \in {n \in Messages : ResolveChannel(n).channel_id = id} }

\* The handlers suspended at a verification call.
Verifying == {f \in Running : f.pc \in {"va_get_chat", "va_get_member"}}

\* C18: when get_chat or get_chat_member raises, the handler goes on to the
\* warning with the channel it is about to register under a provisional
\* title of its identity.
C18_FailedVerificationKeepsTitle ==
    [][ \A f \in Verifying, g \in NewFrames :
          (ResumedNow(f) /\ g.pc = "va_warn") =>
             /\ g.channel_id = f.channel_id
             /\ g.channel_title \in ProvisionalTitles(f.channel_id)
      ]_vars

\* The processed counts at which a run over n channels is to emit a
\* progress update: every 5th channel and the last one.
RECURSIVE Cadence(_, _)
Cadence(n, i) ==
    IF i > n THEN <<>>
    ELSE IF i % ProgressEvery = 0 \/ i = n THEN <<i>> \o Cadence(n, i + 1)
    ELSE Cadence(n, i + 1)

\* A sequence of numbers never decreases.
NonDecreasing(q) == \A i \in 1..(Len(q) - 1) : q[i] <= q[i + 1]

\* C19: a run over the N channels the registry held at its start has, when
\* its loop is over, emitted its progress updates exactly at every 5th
\* channel and at the N-th, and the processed, success and failure counts
\* they show never decrease.
C19_ProgressCadence ==
    \A f \in Reporting :
        /\ [i \in 1..Len(f.progress) |-> f.progress[i][1]] = Cadence(Len(f.started), 1)
        /\ \A k \in 1..3 : NonDecreasing([i \in 1..Len(f.progress) |-> f.progress[i][k]])

\* The dispatch runs of actor a that are in flight.
RunsOf(a) ==
    BagCardinality([f \in {g \in Running : g.actor = a /\ g.routed = "awaiting_broadcast"}
                      |-> CopiesIn(f, tasks)])

\* A dispatch run needs a message and a selection of "broadcast" before it:
\* while no more than three updates have been received, two runs in flight
\* are the two messages that followed one selection.
OneSelection == nupdates <= 3

\* C20: one selection of "broadcast" leads to at most one dispatch run and
\* at most one stats update: after one selection no actor has two runs in
\* flight, and the stats count no more than one broadcast.
C20_OneRunPerSelection ==
    OneSelection =>
        /\ \A a \in Actors : RunsOf(a) <= 1
        /\ stats.total_broadcasts <= 1

\* The progress updates a run in flight has emitted, each as
\* <<processed count, success count, failure count>> as shown.
ProgressShown == UNION { {f.progress[i] : i \in 1..Len(f.progress)} : f \in Running }

\* C21: in every progress update of a dispatch run, the processed count
\* shown is the success count plus the failure count shown with it: the
\* update for the i-th channel includes the outcome of the i-th delivery.
C21_ProgressAccounts ==
    \A u \in ProgressShown : u[1] = u[2] + u[3]

\* C21 as the code has it: the update for the i-th channel is emitted
\* before the i-th delivery, so the processed count shown is one more than
\* the success count plus the failure count shown with it.
C21_ProgressBeforeDelivery ==
    \A u \in ProgressShown : u[1] = u[2] + u[3] + 1

\* A run has shown the update for its second channel, with the outcome of
\* the first in it, and is delivering to the second.
C21_Witness ==
    \E f \in Running :
        /\ f.pc = "bc_send"
        /\ f.index >= 2
        /\ f.progress # <<>>
        /\ f.progress[Len(f.progress)] = <<f.index, f.success_count, Len(f.failed_channels)>>

====
